---- MODULE Spec2Model ----
(***************************************************************************)
(* Model of package transactionlogger (transactionlogger.go): the URL      *)
(* parser ParseLoggerUrl, the factory New with the constructors NewStdout, *)
(* NewDebug, NewDummy and NewRsyslog, and the publishers' Push methods and *)
(* delivery workers (start).                                               *)
(*                                                                         *)
(* Go strings that the code inspects character by character (the           *)
(* configuration string, the channel size override) are sequences of       *)
(* one-character strings.  Log entries, which the code only concatenates,  *)
(* are TLA+ strings.                                                       *)
(***************************************************************************)
EXTENDS Integers, Sequences, FiniteSets, TLC

\* ------------------------------------------------------------------ bounds
\* Number of producer goroutines calling Push.
NumProducers == 2
\* Number of Push calls the producers of one delivery queue make in all.
MaxPush == 3
\* Number of Push calls made on the results of the factory.
MaxProbes == 1
\* Number of calls of the factory New the application makes.
MaxCalls == 2
\* Largest explicit TRANSACTION_LOGGER_CH_SIZE override that is tried.
MaxDepth == 2

\* Longest host and longest port of the generated ParseLoggerUrl arguments.
MaxHostLen == 2
MaxPortLen == 2

\* ----------------------------------------------------------- Go strings
Digits == <<"0", "1", "2", "3", "4", "5", "6", "7", "8", "9">>

IsDigit(c) == \E i \in 1..10 : Digits[i] = c

DigitVal(c) == (CHOOSE i \in 1..10 : Digits[i] = c) - 1

\* regexp class \S: anything but white space
IsNonSpace(c) == c \notin {" ", "\t", "\n", "\r"}

AllNonSpace(s) == \A i \in 1..Len(s) : IsNonSpace(s[i])

AllDigits(s) == \A i \in 1..Len(s) : IsDigit(s[i])

RECURSIVE DecimalValue(_)
DecimalValue(s) ==
    IF s = <<>> THEN 0
    ELSE 10 * DecimalValue(SubSeq(s, 1, Len(s) - 1)) + DigitVal(s[Len(s)])

\* strconv.Atoi: an optional sign followed by digits; 0 and an error otherwise
\* (the values used stay far below the int range).
Atoi(s) ==
    LET signed == s # <<>> /\ s[1] \in {"+", "-"}
        body   == IF signed THEN Tail(s) ELSE s
    IN  IF body # <<>> /\ AllDigits(body)
        THEN [val |-> IF signed /\ s[1] = "-" THEN 0 - DecimalValue(body)
                      ELSE DecimalValue(body),
              ok  |-> TRUE]
        ELSE [val |-> 0, ok |-> FALSE]

RECURSIVE Itoa(_)
Itoa(n) ==
    IF n < 10 THEN <<Digits[n + 1]>>
    ELSE Itoa(n \div 10) \o <<Digits[(n % 10) + 1]>>

\* words the code compares against
StrDebug   == <<"d", "e", "b", "u", "g">>
StrStdout  == <<"s", "t", "d", "o", "u", "t">>
StrStderr  == <<"s", "t", "d", "e", "r", "r">>
StrDummy   == <<"d", "u", "m", "m", "y">>
StrSink    == <<"s", "i", "n", "k">>
StrRsyslog == <<"r", "s", "y", "s", "l", "o", "g">>
StrFile    == <<"f", "i", "l", "e">>
StrLocalhost == <<"l", "o", "c", "a", "l", "h", "o", "s", "t">>
SchemeSep  == <<":", "/", "/">>

\* --------------------------------------------------------- ParseLoggerUrl
\* The zero value of LoggerParameters.
ZeroLoggerParameters == [Protocol |-> <<>>, Port |-> 0, Host |-> <<>>]

HasSepAt(url, j) ==
    j + 3 <= Len(url) /\ SubSeq(url, j + 1, j + 3) = SchemeSep

\* The positions j where "://" follows url[j].
SepEnds(url) == {j \in 1..Len(url) : HasSepAt(url, j)}

\* Matches of (\S+)://(\S+) anywhere in url: <<i, j, k>> with group 1 =
\* url[i..j], "://" at j+1..j+3 and group 2 = url[j+4..k].
ProtocolMatches(url) ==
    UNION {{<<i, j, k>> :
              i \in {x \in 1..j : AllNonSpace(SubSeq(url, x, j))},
              k \in {x \in (j + 4)..Len(url) : AllNonSpace(SubSeq(url, j + 4, x))}} :
           j \in SepEnds(url)}

\* Matches of (\S+)://(\S+):([0-9]+) anywhere in url: <<i, j, k, m>> with
\* groups 1 and 2 as above, ":" at k+1 and group 3 = url[k+2..m].
URLMatches(url) ==
    UNION {{<<t[1], t[2], t[3], m>> :
              m \in {x \in (t[3] + 2)..Len(url) :
                        /\ url[t[3] + 1] = ":"
                        /\ AllDigits(SubSeq(url, t[3] + 2, x))}} :
           t \in ProtocolMatches(url)}

\* FindStringSubmatch picks the leftmost match and, there, lets each greedy
\* group take as much as the rest of the pattern allows, first group first.
Preferred(ms, n) ==
    CHOOSE t \in ms :
        \A u \in ms :
            \/ t = u
            \/ \E x \in 1..n :
                  /\ \A y \in 1..(x - 1) : t[y] = u[y]
                  /\ IF x = 1 THEN t[x] < u[x] ELSE t[x] > u[x]

\* A parser that tries scheme://host before scheme://host:port.
ParseLoggerUrlHostFirst(url) ==
    IF url \in {StrDebug, StrStdout, StrStderr, StrDummy, StrSink}
    THEN [logger |-> [Protocol |-> url, Port |-> 0, Host |-> StrLocalhost],
          err |-> FALSE]
    ELSE IF ProtocolMatches(url) # {}
    THEN LET t == Preferred(ProtocolMatches(url), 3)
             protocol == SubSeq(url, t[1], t[2])
         IN  [logger |-> [Port |-> IF protocol = StrRsyslog THEN 514 ELSE 0,
                          Host |-> SubSeq(url, t[2] + 4, t[3]),
                          Protocol |-> protocol],
              err |-> FALSE]
    ELSE [logger |-> ZeroLoggerParameters, err |-> TRUE]

ParseLoggerUrl(url) ==
    IF url \in {StrDebug, StrStdout, StrStderr, StrDummy, StrSink}
    THEN [logger |-> [Protocol |-> url, Port |-> 0, Host |-> StrLocalhost],
          err |-> FALSE]
    ELSE IF URLMatches(url) # {}
    THEN LET t == Preferred(URLMatches(url), 4)
         IN  [logger |-> [Port |-> Atoi(SubSeq(url, t[3] + 2, t[4])).val,
                          Host |-> SubSeq(url, t[2] + 4, t[3]),
                          Protocol |-> SubSeq(url, t[1], t[2])],
              err |-> FALSE]
    ELSE IF ProtocolMatches(url) # {}
    THEN LET t == Preferred(ProtocolMatches(url), 3)
             protocol == SubSeq(url, t[1], t[2])
         IN  [logger |-> [Port |-> IF protocol = StrRsyslog THEN 514 ELSE 0,
                          Host |-> SubSeq(url, t[2] + 4, t[3]),
                          Protocol |-> protocol],
              err |-> FALSE]
    ELSE [logger |-> ZeroLoggerParameters, err |-> TRUE]

\* ------------------------------------------------------------ status strings
\* fmt.Sprintf(format, args...): the format and the rendered arguments (%s a
\* string, %d a decimal rendering, %v the error text).
Sprintf(format, args) == [fmt |-> format, args |-> args]

EmptyMsg == Sprintf("", <<>>)

MsgParseFailed(url) ==
    Sprintf("Failed to parse activity log URL '%s'. Using default: sink", <<url>>)

MsgDialFailed(host, port, err) ==
    Sprintf("Failed to dial rsyslog %s:%d %v", <<host, Itoa(port), err>>)

MsgRsyslog(host, port) ==
    Sprintf("Transaction log goes to rsyslog %s:%d", <<host, Itoa(port)>>)

MsgSink == Sprintf("Transaction log goes to sink", <<>>)

MsgDebug == Sprintf("Transaction log goes to the service logger", <<>>)

MsgStdout == Sprintf("Transaction log goes to the stdout", <<>>)

MsgStderr == Sprintf("Transaction log goes to the stderr", <<>>)

MsgChmodFailed(filename) == Sprintf("Failed to chmode '%s'", <<filename>>)

MsgCreateFailed(filename) ==
    Sprintf("Failed to open transaction log file '%s' for writing", <<filename>>)

MsgFile(filename) == Sprintf("Transaction log goes to the file '%s'", <<filename>>)

\* Text of the error syslog.Dial returns.
DialErrText == <<"d", "i", "a", "l">>

\* ------------------------------------------------------------------ handles
\* Open destinations: the two standard streams, each file os.Create opened
\* and each connection syslog.Dial opened (id = the factory call that opened
\* it).
OsStdout == [kind |-> "std", id |-> 1]
OsStderr == [kind |-> "std", id |-> 2]
FileHandle(id) == [kind |-> "file", id |-> id]
SyslogWriter(id) == [kind |-> "syslog", id |-> id]
NoHandle == [kind |-> "none", id |-> 0]

\* --------------------------------------------------------------- publishers
\* The default queue depth: logChSize := 32 * 1024.
DefaultLogChSize == 32768

\* A publisher object.  ch is the channel's buffer, cap its capacity, sendq
\* the producers parked in a send with the value each is sending, wpc the
\* position of the goroutine start() spawned ("loop": about to receive,
\* "parked": waiting in the receive, "write": inside the destination write
\* of cur; "none": the variant has no worker).
Publisher(kind, cap, out, raddr, tag) ==
    [kind |-> kind, cap |-> cap, ch |-> <<>>, sendq |-> <<>>,
     wpc |-> IF kind \in {"stdout", "rsyslog"} THEN "loop" ELSE "none",
     cur |-> "", out |-> out, raddr |-> raddr, tag |-> tag]

\* What a constructor hands back: a panic, or a publisher object (hasPub) or
\* nil, an error flag, the flag names it registered and the collaborator
\* calls it made.
Returned(panic, hasPub, pub, err, flagNames, extCalls) ==
    [panic |-> panic, hasPub |-> hasPub, pub |-> pub, err |-> err,
     flags |-> flagNames, ext |-> extCalls]

NilPub == Publisher("nil", 0, NoHandle, <<>>, <<>>)

\* make(chan string, n) panics on a negative size.
MakeChanPanics(logChSize) == logChSize < 0

PanicMakeChan == "makechan: size out of range"

NewStdout(logChSize, outputIo) ==
    IF MakeChanPanics(logChSize)
    THEN Returned(PanicMakeChan, FALSE, NilPub, FALSE, {}, <<>>)
    ELSE Returned("", TRUE, Publisher("stdout", logChSize, outputIo, <<>>, <<>>),
                  FALSE, {}, <<>>)

NewDebug == Returned("", TRUE, Publisher("debug", 0, NoHandle, <<>>, <<>>),
                     FALSE, {}, <<>>)

NewDummy == Returned("", TRUE, Publisher("dummy", 0, NoHandle, <<>>, <<>>),
                     FALSE, {}, <<>>)

\* A collaborator call and its outcome.
ExtCall(fn, a1, a2, ok) == [fn |-> fn, a1 |-> a1, a2 |-> a2, ok |-> ok]

\* flag.CommandLine.Var: registering a name twice panics; a toolchain whose
\* flag package validates names (strict) also panics on a name that begins
\* with "-".
FlagVarPanic(flagSet, strict, name, dashed) ==
    IF strict /\ dashed THEN "flag begins with -"
    ELSE IF name \in flagSet THEN "flag redefined"
    ELSE ""

\* fmt.Sprintf("%s:%d", host, port)
Raddr(host, port) == host \o <<":">> \o Itoa(port)

\* A constructor that falls back to the Null variant when the dial fails.
NewRsyslogFallback(logChSize, host, port, tag, flagSet, strict, dialOk, id) ==
    LET raddr    == Raddr(host, port)
        flagErr  == FlagVarPanic(flagSet, strict, "--udp", TRUE)
        dial     == <<ExtCall("syslog.Dial", "tcp", raddr, dialOk)>>
    IN  IF flagErr # ""
        THEN Returned(flagErr, FALSE, NilPub, FALSE, {}, <<>>)
        ELSE IF ~dialOk
        THEN Returned("", TRUE, Publisher("dummy", 0, NoHandle, <<>>, <<>>),
                      TRUE, {"--udp"}, dial)
        ELSE IF MakeChanPanics(logChSize)
        THEN Returned(PanicMakeChan, FALSE, NilPub, FALSE, {"--udp"}, dial)
        ELSE Returned("", TRUE,
                      Publisher("rsyslog", logChSize, SyslogWriter(id), raddr, tag),
                      FALSE, {"--udp"}, dial)

NewRsyslog(logChSize, host, port, tag, flagSet, strict, dialOk, id) ==
    LET raddr    == Raddr(host, port)
        flagErr  == FlagVarPanic(flagSet, strict, "--udp", TRUE)
        isUdp    == FALSE
        protocol == IF isUdp THEN "udp" ELSE "tcp"
        dial     == <<ExtCall("syslog.Dial", protocol, raddr, dialOk)>>
    IN  IF flagErr # ""
        THEN Returned(flagErr, FALSE, NilPub, FALSE, {}, <<>>)
        ELSE IF ~dialOk
        THEN Returned("", FALSE, NilPub, TRUE, {"--udp"}, dial)
        ELSE IF MakeChanPanics(logChSize)
        THEN Returned(PanicMakeChan, FALSE, NilPub, FALSE, {"--udp"}, dial)
        ELSE Returned("", TRUE,
                      Publisher("rsyslog", logChSize, SyslogWriter(id), raddr, tag),
                      FALSE, {"--udp"}, dial)

\* ---------------------------------------------------------------------- New
\* What New hands back: a constructor's result with the status string.
WithMsg(r, msg) == [r EXCEPT !.err = FALSE] @@ [msg |-> msg]

\* envTransactionLogger after lines 73-76: the environment variable, or the
\* default "dummy" that flag.StringVar stores when the variable is empty.
LoggerSetting(envLogger) == IF Len(envLogger) = 0 THEN StrDummy ELSE envLogger

\* A factory that reports a parse failure but keeps the parser's protocol.
ProtocolKeptOnError(parsed) == parsed.logger.Protocol

\* transactionLoggerParams.Protocol after lines 77-81.
ProtocolAfterParse(parsed) ==
    IF parsed.err THEN StrDummy ELSE parsed.logger.Protocol

\* logChSize after lines 83-86.
LogChSize(envChSize) ==
    IF envChSize # <<>> THEN Atoi(envChSize).val ELSE DefaultLogChSize

\* The "file" case, lines 108-122.
NewFileCase(filename, logChSize, msg0, chmodOk, createOk, id) ==
    LET ext    == <<ExtCall("os.Chmod", "ModePerm", filename, chmodOk),
                    ExtCall("os.Create", "", filename, createOk)>>
        \* after the chmod step
        msg1   == IF ~chmodOk THEN MsgChmodFailed(filename) ELSE msg0
        tl1    == IF ~chmodOk THEN NewDummy
                  ELSE Returned("", FALSE, NilPub, FALSE, {}, <<>>)
        \* after the create step
        opened == NewStdout(logChSize, FileHandle(id))
    IN  IF ~createOk
        THEN WithMsg([NewDummy EXCEPT !.ext = ext], MsgCreateFailed(filename))
        ELSE IF opened.panic # ""
        THEN WithMsg([opened EXCEPT !.ext = ext], msg1)
        ELSE WithMsg([opened EXCEPT !.ext = ext], MsgFile(filename))

\* The switch on the protocol, lines 88-123; msg0 is the status string set
\* before it.
NewSwitch(params, logChSize, msg0, flagSet, strict, chmodOk, createOk, dialOk, id) ==
    LET protocol == params.Protocol
    IN  CASE protocol = StrRsyslog ->
               LET r == NewRsyslog(logChSize, params.Host, params.Port, <<>>,
                                   flagSet, strict, dialOk, id)
               IN  IF r.panic # "" THEN WithMsg(r, msg0)
                   ELSE IF r.err
                   THEN WithMsg(r, MsgDialFailed(params.Host, params.Port, DialErrText))
                   ELSE WithMsg(r, MsgRsyslog(params.Host, params.Port))
          [] protocol \in {StrDummy, StrSink} -> WithMsg(NewDummy, MsgSink)
          [] protocol = StrDebug -> WithMsg(NewDebug, MsgDebug)
          [] protocol = StrStdout ->
               WithMsg(NewStdout(logChSize, OsStdout), MsgStdout)
          [] protocol = StrStderr ->
               WithMsg(NewStdout(logChSize, OsStderr), MsgStderr)
          [] protocol = StrFile ->
               NewFileCase(params.Host, logChSize, msg0, chmodOk, createOk, id)
          [] OTHER -> WithMsg(Returned("", FALSE, NilPub, FALSE, {}, <<>>), msg0)

\* New(): envLogger and envChSize are the environment variables
\* TRANSACTION_LOGGER and TRANSACTION_LOGGER_CH_SIZE, flagSet the names
\* registered in flag.CommandLine, chmodOk, createOk and dialOk the outcomes
\* of the collaborators, id the number of this call.
New(envLogger, envChSize, flagSet, strict, chmodOk, createOk, dialOk, id) ==
    LET flagErr == IF Len(envLogger) = 0
                   THEN FlagVarPanic(flagSet, strict, "logger", FALSE)
                   ELSE ""
        flags1  == IF Len(envLogger) = 0 THEN {"logger"} ELSE {}
        setting == LoggerSetting(envLogger)
        parsed  == ParseLoggerUrl(setting)
        msg0    == IF parsed.err THEN MsgParseFailed(setting) ELSE EmptyMsg
        params  == [parsed.logger EXCEPT !.Protocol = ProtocolAfterParse(parsed)]
        r       == NewSwitch(params, LogChSize(envChSize), msg0, flagSet \cup flags1,
                             strict, chmodOk, createOk, dialOk, id)
    IN  IF flagErr # ""
        THEN WithMsg(Returned(flagErr, FALSE, NilPub, FALSE, {}, <<>>), EmptyMsg)
        ELSE [r EXCEPT !.flags = @ \cup flags1]

\* -------------------------------------------------------------------- state
VARIABLES
    env,        \* the process environment: [logger, chsize], read by New
    strict,     \* whether the toolchain's flag package validates flag names
    flagSet,    \* names registered in the process-wide flag.CommandLine
    pubs,       \* the publisher objects constructed so far
    rets,       \* what each call of New returned: [pub, msg, ext], pub = 0 for nil
    prod,       \* per producer: pc, entries pushed, and where and when
    sink,       \* per open handle: the writes it received, in order
    crashed,    \* "" or the panic that ended the process
    udpFlag,    \* whether the caller asks for UDP transport (the --udp option)
    url,        \* the argument of a direct call of ParseLoggerUrl
    parsed      \* what that call returned: [done, logger, err]

vars == <<env, strict, flagSet, pubs, rets, prod, sink, crashed, udpFlag, url, parsed>>

Producers == 1..NumProducers

\* The k-th entry producer p pushes.
Entry(p, k) == "p" \o ToString(p) \o "." \o ToString(k)

\* Values of TRANSACTION_LOGGER.
StrFileUrl    == <<"f", "i", "l", "e", ":", "/", "/", "/", "l">>
StrRsyslogUrl == <<"r", "s", "y", "s", "l", "o", "g", ":", "/", "/", "h">>
StrRsyslogPortUrl ==
    <<"r", "s", "y", "s", "l", "o", "g", ":", "/", "/", "h", ":", "6">>
StrHttpUrl    == <<"h", "t", "t", "p", ":", "/", "/", "h">>
StrNotAUrl    == <<"n", "o", "t", "-", "a", "-", "u", "r", "l">>
StrNoHost     == <<"f", "i", "l", "e", ":", "/", "/">>

LoggerSettings ==
    {<<>>, StrStdout, StrStderr, StrDebug, StrDummy, StrSink, StrFileUrl,
     StrRsyslogUrl, StrRsyslogPortUrl, StrHttpUrl, StrNotAUrl, StrNoHost}

\* Values of TRANSACTION_LOGGER_CH_SIZE: absent, not a number, zero,
\* negative, and the depths 1..MaxDepth.
ChSizeSettings ==
    {<<>>, <<"x">>, <<"0">>, <<"-", "1">>} \cup {Itoa(n) : n \in 1..MaxDepth}

\* parsed before ParseLoggerUrl has been called.
NotParsed == [done |-> FALSE, logger |-> ZeroLoggerParameters, err |-> FALSE]

Init ==
    /\ udpFlag = FALSE
    /\ url = <<>>
    /\ parsed = NotParsed
    /\ env \in [logger : LoggerSettings, chsize : ChSizeSettings]
    /\ strict \in BOOLEAN
    /\ flagSet = {}
    /\ pubs = <<>>
    /\ rets = <<>>
    /\ prod = [p \in Producers |-> [pc |-> "idle", n |-> 0, log |-> <<>>]]
    /\ sink = (OsStdout :> <<>>) @@ (OsStderr :> <<>>)
    /\ crashed = ""

\* -------------------------------------------------------------- the factory
\* One call of New by the application.
CallNew(chmodOk, createOk, dialOk) ==
    /\ crashed = ""
    /\ Len(rets) < MaxCalls
    /\ LET id == Len(rets) + 1
           r  == New(env.logger, env.chsize, flagSet, strict,
                     chmodOk, createOk, dialOk, id)
       IN  IF r.panic # ""
           THEN /\ crashed' = r.panic
                /\ UNCHANGED <<flagSet, pubs, rets, sink>>
           ELSE /\ flagSet' = flagSet \cup r.flags
                /\ pubs' = IF r.hasPub THEN Append(pubs, r.pub) ELSE pubs
                /\ rets' = Append(rets, [pub |-> IF r.hasPub THEN Len(pubs) + 1 ELSE 0,
                                         msg |-> r.msg, ext |-> r.ext])
                /\ sink' = IF r.hasPub /\ r.pub.out \notin DOMAIN sink
                                       /\ r.pub.out # NoHandle
                           THEN sink @@ (r.pub.out :> <<>>)
                           ELSE sink
                /\ UNCHANGED crashed
    /\ UNCHANGED <<udpFlag, url, parsed, env, strict, prod>>

\* ------------------------------------------------------------------ channels
\* The number of destination writes the worker of publisher i has completed.
Written(i) ==
    IF pubs[i].out \in DOMAIN sink
    THEN Len(SelectSeq(sink[pubs[i].out], LAMBDA w : w.by = "worker" /\ w.pub = i))
    ELSE 0

\* 0 when the worker of publisher i is not inside a destination write, else
\* the number of that write.
StallOf(i) == IF pubs[i].wpc = "write" THEN Written(i) + 1 ELSE 0

\* A send that never waits for room.
ChanSendUnbounded(pub, p, s) ==
    IF pub.wpc = "parked"
    THEN [pub EXCEPT !.cur = s, !.wpc = "write"]
    ELSE [pub EXCEPT !.ch = Append(@, s)]

\* this.ch <- s by producer p (runtime chansend): hand the value to a
\* receiver that is waiting, else buffer it when there is room, else park.
ChanSend(pub, p, s) ==
    IF pub.wpc = "parked"
    THEN [pub EXCEPT !.cur = s, !.wpc = "write"]
    ELSE IF Len(pub.ch) < pub.cap
    THEN [pub EXCEPT !.ch = Append(@, s)]
    ELSE [pub EXCEPT !.sendq = Append(@, [p |-> p, s |-> s])]

\* Whether the send of a producer parks it.
SendBlocks(pub) == pub.wpc # "parked" /\ ~(Len(pub.ch) < pub.cap)

\* A receive that takes the newest buffered entry instead of the oldest.
ChanRecvNewest(pub) ==
    IF pub.ch # <<>>
    THEN [pub EXCEPT !.cur = pub.ch[Len(pub.ch)],
                     !.ch = IF pub.sendq # <<>>
                            THEN Append(SubSeq(pub.ch, 1, Len(pub.ch) - 1),
                                        Head(pub.sendq).s)
                            ELSE SubSeq(pub.ch, 1, Len(pub.ch) - 1),
                     !.sendq = IF pub.sendq # <<>> THEN Tail(@) ELSE @,
                     !.wpc = "write"]
    ELSE [pub EXCEPT !.cur = Head(pub.sendq).s,
                     !.sendq = Tail(@),
                     !.wpc = "write"]

\* s := <-this.ch with something to receive (runtime chanrecv): take the
\* head of the buffer and move the first parked sender's value into the
\* buffer, or, with an empty buffer, take the first parked sender's value.
ChanRecv(pub) ==
    IF pub.ch # <<>>
    THEN [pub EXCEPT !.cur = Head(pub.ch),
                     !.ch = IF pub.sendq # <<>>
                            THEN Append(Tail(pub.ch), Head(pub.sendq).s)
                            ELSE Tail(pub.ch),
                     !.sendq = IF pub.sendq # <<>> THEN Tail(@) ELSE @,
                     !.wpc = "write"]
    ELSE [pub EXCEPT !.cur = Head(pub.sendq).s,
                     !.sendq = Tail(@),
                     !.wpc = "write"]

\* A receive that wakes nobody.
WokenNone(pub) == {}

\* The producers a receive wakes.
Woken(pub) == IF pub.sendq # <<>> THEN {Head(pub.sendq).p} ELSE {}

\* --------------------------------------------------------------------- Push
\* The number of Push calls producers 1..n have made.
RECURSIVE Pushed(_)
Pushed(n) == IF n = 0 THEN 0 ELSE prod[n].n + Pushed(n - 1)

\* Producer p is between calls and calls Push(Entry) on what call r of New
\* returned.
CanPush(p, r) ==
    /\ crashed = ""
    /\ prod[p].pc = "idle"
    /\ r \in 1..Len(rets)

\* The producer's own record of a Push call: the publisher and the write its
\* worker was inside at the time of the call (0 when it was inside none).
Called(p, i, blocks) ==
    [prod EXCEPT ![p] = [pc  |-> IF blocks THEN "blocked" ELSE "idle",
                         n   |-> @.n + 1,
                         log |-> Append(@.log, [pub |-> i, stall |-> StallOf(i)])]]

\* Push on the nil Publisher that New returned: a nil dereference.
PushNil(p, r) ==
    /\ CanPush(p, r)
    /\ rets[r].pub = 0
    /\ crashed' = "nil pointer dereference"
    /\ UNCHANGED <<udpFlag, url, parsed, env, strict, flagSet, pubs, rets, prod, sink>>

\* PublisherDummy.Push
PushDummy(p, r) ==
    /\ CanPush(p, r)
    /\ rets[r].pub # 0
    /\ pubs[rets[r].pub].kind = "dummy"
    /\ prod' = Called(p, rets[r].pub, FALSE)
    /\ UNCHANGED <<udpFlag, url, parsed, env, strict, flagSet, pubs, rets, sink, crashed>>

\* PublisherDebug.Push: fmt.Printf("Transaction %s", s) on the standard output
PushDebug(p, r) ==
    /\ CanPush(p, r)
    /\ rets[r].pub # 0
    /\ pubs[rets[r].pub].kind = "debug"
    /\ prod' = Called(p, rets[r].pub, FALSE)
    /\ sink' = [sink EXCEPT ![OsStdout] =
                    Append(@, [by |-> "push", pub |-> rets[r].pub, sev |-> "",
                               data |-> "Transaction " \o Entry(p, prod[p].n + 1)])]
    /\ UNCHANGED <<udpFlag, url, parsed, env, strict, flagSet, pubs, rets, crashed>>

\* A Push that writes the line to the destination itself.
PushChanDirect(p, i) ==
    /\ sink' = [sink EXCEPT ![pubs[i].out] =
                    Append(@, [by |-> "push", pub |-> i, sev |-> "",
                               data |-> Entry(p, prod[p].n + 1) \o "\n"])]
    /\ prod' = Called(p, i, FALSE)
    /\ UNCHANGED <<udpFlag, url, parsed, env, strict, flagSet, pubs, rets, crashed>>

\* this.ch <- s, the body of both queueing Push methods
PushChan(p, i) ==
    /\ pubs' = [pubs EXCEPT ![i] = ChanSend(@, p, Entry(p, prod[p].n + 1))]
    /\ prod' = Called(p, i, SendBlocks(pubs[i]))
    /\ UNCHANGED <<udpFlag, url, parsed, env, strict, flagSet, rets, sink, crashed>>

\* PublisherRsyslog.Push
PushRsyslog(p, r) ==
    /\ CanPush(p, r)
    /\ rets[r].pub # 0
    /\ pubs[rets[r].pub].kind = "rsyslog"
    /\ PushChan(p, rets[r].pub)

\* PublisherStdout.Push
PushStdout(p, r) ==
    /\ CanPush(p, r)
    /\ rets[r].pub # 0
    /\ pubs[rets[r].pub].kind = "stdout"
    /\ PushChan(p, rets[r].pub)

\* ------------------------------------------------------------------- workers
\* s := <-this.ch with an entry to take; the parked sender, if any, returns
\* from its Push.
WorkerRecv(i) ==
    /\ crashed = ""
    /\ i \in 1..Len(pubs)
    /\ pubs[i].wpc = "loop"
    /\ pubs[i].ch # <<>> \/ pubs[i].sendq # <<>>
    /\ pubs' = [pubs EXCEPT ![i] = ChanRecv(@)]
    /\ prod' = [p \in Producers |->
                   IF p \in Woken(pubs[i]) THEN [prod[p] EXCEPT !.pc = "idle"]
                   ELSE prod[p]]
    /\ UNCHANGED <<udpFlag, url, parsed, env, strict, flagSet, rets, sink, crashed>>

\* s := <-this.ch with nothing to take: the worker waits in the receive.
WorkerPark(i) ==
    /\ crashed = ""
    /\ i \in 1..Len(pubs)
    /\ pubs[i].wpc = "loop"
    /\ pubs[i].ch = <<>> /\ pubs[i].sendq = <<>>
    /\ pubs' = [pubs EXCEPT ![i].wpc = "parked"]
    /\ UNCHANGED <<udpFlag, url, parsed, env, strict, flagSet, rets, prod, sink, crashed>>

\* A write that adds no line terminator.
WorkerWroteBare(i, sev) ==
    /\ sink' = [sink EXCEPT ![pubs[i].out] =
                    Append(@, [by |-> "worker", pub |-> i, sev |-> sev,
                               data |-> pubs[i].cur])]
    /\ pubs' = [pubs EXCEPT ![i].wpc = "loop", ![i].cur = ""]
    /\ UNCHANGED <<udpFlag, url, parsed, env, strict, flagSet, rets, prod, crashed>>

\* A worker that returns after its first write.
WorkerWroteOnce(i, sev) ==
    /\ sink' = [sink EXCEPT ![pubs[i].out] =
                    Append(@, [by |-> "worker", pub |-> i, sev |-> sev,
                               data |-> pubs[i].cur \o "\n"])]
    /\ pubs' = [pubs EXCEPT ![i].wpc = "none", ![i].cur = ""]
    /\ UNCHANGED <<udpFlag, url, parsed, env, strict, flagSet, rets, prod, crashed>>

\* The destination write completes and the loop goes round.
WorkerWrote(i, sev) ==
    /\ sink' = [sink EXCEPT ![pubs[i].out] =
                    Append(@, [by |-> "worker", pub |-> i, sev |-> sev,
                               data |-> pubs[i].cur \o "\n"])]
    /\ pubs' = [pubs EXCEPT ![i].wpc = "loop", ![i].cur = ""]
    /\ UNCHANGED <<udpFlag, url, parsed, env, strict, flagSet, rets, prod, crashed>>

\* PublisherStdout.start: this.outputIo.WriteString(s + "\n")
WorkerWriteString(i) ==
    /\ crashed = ""
    /\ i \in 1..Len(pubs)
    /\ pubs[i].kind = "stdout"
    /\ pubs[i].wpc = "write"
    /\ WorkerWrote(i, "")

\* PublisherRsyslog.start: this.writer.Debug(s + "\n")
WorkerDebug(i) ==
    /\ crashed = ""
    /\ i \in 1..Len(pubs)
    /\ pubs[i].kind = "rsyslog"
    /\ pubs[i].wpc = "write"
    /\ WorkerWrote(i, "debug")

\* ------------------------------------------------------------- specification
\* The factory and what it hands back: the application calls New up to
\* MaxCalls times under any environment and one goroutine makes up to
\* MaxProbes pushes on the results.
Next ==
    \/ \E chmodOk, createOk, dialOk \in BOOLEAN : CallNew(chmodOk, createOk, dialOk)
    \/ \E r \in 1..MaxCalls : prod[1].n < MaxProbes /\ PushNil(1, r)
    \/ \E r \in 1..MaxCalls : prod[1].n < MaxProbes /\ PushDummy(1, r)
    \/ \E r \in 1..MaxCalls : prod[1].n < MaxProbes /\ PushDebug(1, r)
    \/ \E r \in 1..MaxCalls : prod[1].n < MaxProbes /\ PushRsyslog(1, r)
    \/ \E r \in 1..MaxCalls : prod[1].n < MaxProbes /\ PushStdout(1, r)
    \/ \E i \in 1..MaxCalls : WorkerRecv(i)
    \/ \E i \in 1..MaxCalls : WorkerPark(i)
    \/ \E i \in 1..MaxCalls : WorkerWriteString(i)
    \/ \E i \in 1..MaxCalls : WorkerDebug(i)

Spec == Init /\ [][Next]_vars

\* One delivery queue under load: the application builds a single Stream or
\* Remote-Syslog publisher of depth 0..MaxDepth (or the default depth) and
\* the producers push to it, MaxPush times in all.
InitQueue ==
    /\ Init
    /\ env.logger \in {StrStdout, StrRsyslogUrl}
    /\ env.chsize \in {<<>>} \cup {Itoa(n) : n \in 0..MaxDepth}

NextQueue ==
    \/ \E dialOk \in BOOLEAN : rets = <<>> /\ CallNew(TRUE, TRUE, dialOk)
    \/ \E p \in Producers : Pushed(NumProducers) < MaxPush /\ PushRsyslog(p, 1)
    \/ \E p \in Producers : Pushed(NumProducers) < MaxPush /\ PushStdout(p, 1)
    \/ WorkerRecv(1)
    \/ WorkerPark(1)
    \/ WorkerWriteString(1)
    \/ WorkerDebug(1)

SpecQueue == InitQueue /\ [][NextQueue]_vars

\* The delivery queue with a worker goroutine that the scheduler keeps
\* running and destination writes that complete.
SpecQueueFair ==
    /\ SpecQueue
    /\ WF_vars(WorkerRecv(1))
    /\ WF_vars(WorkerPark(1))
    /\ WF_vars(WorkerWriteString(1))
    /\ WF_vars(WorkerDebug(1))

\* ------------------------------------------------------------------- claims
\* The publishers that own a delivery queue.
Queued == {i \in 1..Len(pubs) : pubs[i].kind \in {"stdout", "rsyslog"}}

\* The line the worker writes for the k-th entry of producer p.
Line(p, k) == Entry(p, k) \o "\n"

\* Whether the worker of publisher i has written the k-th entry of producer p.
Delivered(i, p, k) ==
    \E x \in 1..Len(sink[pubs[i].out]) :
        /\ sink[pubs[i].out][x].by = "worker"
        /\ sink[pubs[i].out][x].pub = i
        /\ sink[pubs[i].out][x].data = Line(p, k)

\* The configuration string that New parses under the current environment.
Setting == LoggerSetting(env.logger)

\* C1: a producer that has called Push on a Stream publisher of depth N >= 1
\* is never left blocked: no producer is parked in the send of such a
\* publisher, whatever the queue holds and wherever the worker is.
C1_StreamPushNeverBlocks ==
    \A i \in 1..Len(pubs) :
        (pubs[i].kind = "stdout" /\ pubs[i].cap >= 1) => pubs[i].sendq = <<>>

\* C2: a Push on a Remote-Syslog publisher whose queue holds N entries (N its
\* depth) returns at once and leaves the queue contents unchanged.
C2_RsyslogPushDropsWhenFull ==
    [][\A p \in Producers, i \in 1..Len(pubs) :
          ( /\ pubs[i].kind = "rsyslog"
            /\ pubs[i].cap >= 1
            /\ Len(pubs[i].ch) = pubs[i].cap
            /\ prod'[p].n = prod[p].n + 1
            /\ prod'[p].log[prod'[p].n].pub = i )
          => (prod'[p].pc = "idle" /\ pubs'[i].ch = pubs[i].ch /\ pubs'[i].sendq = <<>>)
      ]_vars

\* The entries producer p pushed to publisher i while its worker was inside
\* its e-th destination write.
Burst(i, p, e) ==
    {k \in 1..Len(prod[p].log) : prod[p].log[k].pub = i /\ prod[p].log[k].stall = e}

\* C3: of the N+K entries (K > 0) one producer pushes to a Stream publisher
\* of depth N during one stall of the destination write, at most N are ever
\* written to the destination.
C3_BurstDeliversAtMostDepth ==
    \A i \in 1..Len(pubs), p \in Producers, e \in 1..MaxPush :
        ( /\ pubs[i].kind = "stdout"
          /\ pubs[i].cap >= 1
          /\ Cardinality(Burst(i, p, e)) > pubs[i].cap )
        => Cardinality({k \in Burst(i, p, e) : Delivered(i, p, k)}) <= pubs[i].cap

\* C4: on every destination, the entries of one producer appear in the order
\* the producer pushed them.
C4_ProducerOrderKept ==
    \A h \in DOMAIN sink :
        \A a, b \in 1..Len(sink[h]) :
            \A p \in Producers, ka, kb \in 1..MaxPush :
                ( /\ a < b
                  /\ sink[h][a].by = "worker"
                  /\ sink[h][b].by = "worker"
                  /\ sink[h][a].data = Line(p, ka)
                  /\ sink[h][b].data = Line(p, kb) )
                => ka <= kb

\* C4's case: a destination holds two entries of one producer and, between
\* them, an entry of another producer.
C4_Witness ==
    \E h \in DOMAIN sink :
        \E a, b, c \in 1..Len(sink[h]) :
            \E p, q \in Producers :
                /\ a < c /\ c < b /\ p # q
                /\ sink[h][a].data = Line(p, 1)
                /\ sink[h][b].data = Line(p, 2)
                /\ sink[h][c].data = Line(q, 1)

\* C5: the number of entries pending in a delivery queue is between 0 and
\* the depth it was built with.
C5_QueueWithinDepth ==
    \A i \in Queued : Len(pubs[i].ch) >= 0 /\ Len(pubs[i].ch) <= pubs[i].cap

\* C5's case: a queue of depth >= 1 is full while a producer is parked in a
\* Push on it.
C5_Witness ==
    \E i \in Queued :
        /\ pubs[i].cap >= 1
        /\ Len(pubs[i].ch) = pubs[i].cap
        /\ pubs[i].sendq # <<>>

\* C6: New always returns a usable (non-nil) Publisher.
C6_NewAlwaysUsable == \A r \in 1..Len(rets) : rets[r].pub # 0

\* C7: when ParseLoggerUrl rejects the configuration string, New does not
\* panic and returns the Null publisher and a non-empty status string.
C7_ParseFailureGivesNull ==
    ParseLoggerUrl(Setting).err =>
        /\ crashed = ""
        /\ \A r \in 1..Len(rets) :
              /\ rets[r].pub # 0
              /\ pubs[rets[r].pub].kind = "dummy"
              /\ rets[r].msg # EmptyMsg

\* C7's case: New has returned under a rejected configuration string and a
\* Push on its result has returned.
C7_Witness ==
    /\ ParseLoggerUrl(Setting).err
    /\ Len(rets) >= 1
    /\ prod[1].n >= 1
    /\ prod[1].pc = "idle"

\* C8: when ParseLoggerUrl rejects the configuration string, the status
\* string New returns is the one that reports the parse failure.
C8_ParseFailureReported ==
    ParseLoggerUrl(Setting).err =>
        \A r \in 1..Len(rets) : rets[r].msg = MsgParseFailed(Setting)

\* Whether call r of New made a collaborator call that failed.
StepFailed(r) == \E x \in 1..Len(rets[r].ext) : ~rets[r].ext[x].ok

\* C9: for a file destination, New returns the Null publisher and a status
\* string reporting the failure whenever a step (chmod, create) failed, and
\* a Stream publisher over the file only when every step succeeded.
C9_FileFailureGivesNull ==
    \A r \in 1..Len(rets) :
        (ProtocolAfterParse(ParseLoggerUrl(Setting)) = StrFile /\ rets[r].pub # 0) =>
            IF StepFailed(r)
            THEN /\ pubs[rets[r].pub].kind = "dummy"
                 /\ rets[r].msg \in {MsgChmodFailed(ParseLoggerUrl(Setting).logger.Host),
                                     MsgCreateFailed(ParseLoggerUrl(Setting).logger.Host)}
            ELSE pubs[rets[r].pub].kind = "stdout"

\* The kind of publisher call r of New returned ("nil" for none).
KindReturned(r, ps) == IF r.pub = 0 THEN "nil" ELSE ps[r.pub].kind

\* C10: construction leaves no process-global state behind: a further call
\* of New under the same configuration does not fail where an earlier one
\* succeeded, calls with the same collaborator outcomes return the same kind
\* of publisher and the same status string, and a Push on one publisher
\* leaves every other publisher's queue alone.
C10_ConstructionIndependent ==
    [][ /\ (Len(rets) >= 1 /\ crashed = "") => crashed' # "flag redefined"
        /\ \A r1, r2 \in 1..Len(rets') :
              rets'[r1].ext = rets'[r2].ext =>
                  /\ rets'[r1].msg = rets'[r2].msg
                  /\ KindReturned(rets'[r1], pubs') = KindReturned(rets'[r2], pubs')
        /\ \A i, j \in 1..Len(pubs) :
              (i # j /\ prod'[1].n = prod[1].n + 1 /\ prod'[1].log[prod'[1].n].pub = j)
              => pubs'[i] = pubs[i]
      ]_vars


\* ----------------------------------------------------------- the parser alone
\* Non-empty sequences over alphabet of length up to n.
SeqsUpTo(alphabet, n) == UNION {[1..k -> alphabet] : k \in 1..n}

Schemes == {StrRsyslog, StrFile, <<"a">>}

Hosts == SeqsUpTo({"h", "/", "1"}, MaxHostLen)

Ports == SeqsUpTo({"0", "1", "5"}, MaxPortLen)

\* scheme://host and scheme://host:port
HostUrl(scheme, host) == scheme \o SchemeSep \o host

PortUrl(scheme, host, port) == scheme \o SchemeSep \o host \o <<":">> \o port

\* Arguments that are not of those two forms.
StrBadPort  == StrRsyslogUrl \o <<":", "1", "2", "a", "b">>
StrNoPort   == StrRsyslogUrl \o <<":">>
StrPortMid  == <<"a", ":", "/", "/", "h", ":", "1", ":", "x">>
StrFragment == <<"x", " ", "a", ":", "/", "/", "b", " ", "y">>
StrPortThenText == <<"a", ":", "/", "/", "h", ":", "5", " ", "y">>
StrTwoSeps  == <<"a", ":", "/", "/", "b", ":", "/", "/", "c">>

ParseInputs ==
    {HostUrl(s, h) : s \in Schemes, h \in Hosts}
    \cup {PortUrl(t[1], t[2], t[3]) : t \in Schemes \X Hosts \X Ports}
    \cup {StrDebug, StrStdout, StrStderr, StrDummy, StrSink}
    \cup {<<>>, StrNotAUrl, StrNoHost, StrBadPort, StrNoPort, StrPortMid,
          StrFragment, StrPortThenText, StrTwoSeps}

InitParse ==
    /\ udpFlag = FALSE
    /\ url \in ParseInputs
    /\ parsed = NotParsed
    /\ env = [logger |-> <<>>, chsize |-> <<>>]
    /\ strict = FALSE
    /\ flagSet = {}
    /\ pubs = <<>>
    /\ rets = <<>>
    /\ prod = [p \in Producers |-> [pc |-> "idle", n |-> 0, log |-> <<>>]]
    /\ sink = (OsStdout :> <<>>) @@ (OsStderr :> <<>>)
    /\ crashed = ""

\* A call ParseLoggerUrl(url).
CallParse ==
    /\ ~parsed.done
    /\ parsed' = [done |-> TRUE, logger |-> ParseLoggerUrl(url).logger,
                  err |-> ParseLoggerUrl(url).err]
    /\ UNCHANGED <<udpFlag, url, env, strict, flagSet, pubs, rets, prod, sink, crashed>>

NextParse == CallParse

SpecParse == InitParse /\ [][NextParse]_vars

\* The port ParseLoggerUrl gives a protocol when the argument names none.
DefaultPort(protocol) == IF protocol = StrRsyslog THEN 514 ELSE 0

\* C11: on scheme://host ParseLoggerUrl returns the scheme, the host and the
\* port 514 for rsyslog and 0 for any other scheme; on scheme://host:port
\* with an all-digit port it returns the numeric port and the host without
\* the ":port" suffix.
C11_HostAndPortForms ==
    parsed.done =>
        /\ \A s \in Schemes, h \in Hosts :
              url = HostUrl(s, h) =>
                  /\ ~parsed.err
                  /\ parsed.logger = [Protocol |-> s, Host |-> h,
                                      Port |-> DefaultPort(s)]
        /\ \A s \in Schemes, h \in Hosts, q \in Ports :
              url = PortUrl(s, h, q) =>
                  /\ ~parsed.err
                  /\ parsed.logger = [Protocol |-> s, Host |-> h,
                                      Port |-> DecimalValue(q)]

\* C11's case: rsyslog://host:port has been parsed to a port that is neither
\* default.
C11_Witness ==
    /\ parsed.done
    /\ \E h \in Hosts, q \in Ports : url = PortUrl(StrRsyslog, h, q)
    /\ parsed.logger.Port \notin {0, 514}

\* The text after the last ":" of s (all of s when it has none).
AfterLastColon(s) ==
    LET cs == {i \in 1..Len(s) : s[i] = ":"}
    IN  IF cs = {} THEN s
        ELSE SubSeq(s, (CHOOSE i \in cs : \A j \in cs : j <= i) + 1, Len(s))

\* C12: when the text after the final ":" of the argument is not entirely
\* digits, ParseLoggerUrl takes no port from the argument: it fails or
\* returns the scheme://host form with the protocol's default port.
C12_MalformedPortFallsThrough ==
    ( /\ parsed.done
      /\ url \notin {StrDebug, StrStdout, StrStderr, StrDummy, StrSink}
      /\ ~(AfterLastColon(url) # <<>> /\ AllDigits(AfterLastColon(url))) )
    => \/ parsed.err
       \/ /\ parsed.logger.Port = DefaultPort(parsed.logger.Protocol)
          /\ ProtocolMatches(url) # {}
          /\ parsed.logger.Host =
                SubSeq(url, Preferred(ProtocolMatches(url), 3)[2] + 4,
                       Preferred(ProtocolMatches(url), 3)[3])

\* Whether s, taken whole, is scheme://host (with or without a port): no
\* white space, and "://" with text on both sides.
WholeUrl(s) ==
    /\ AllNonSpace(s)
    /\ \E j \in SepEnds(s) : j + 4 <= Len(s)

\* C13: ParseLoggerUrl returns an error for every argument that is neither a
\* bare keyword nor, taken whole, of the form scheme://host or
\* scheme://host:port.
C13_EverythingElseFails ==
    (parsed.done /\ url \notin {StrDebug, StrStdout, StrStderr, StrDummy, StrSink}
                 /\ ~WholeUrl(url))
    => parsed.err /\ parsed.logger = ZeroLoggerParameters


\* ------------------------------------------------------ the rsyslog destination
\* The factory under an rsyslog destination, with and without the caller's
\* request for UDP.
InitDial ==
    /\ udpFlag \in BOOLEAN
    /\ url = <<>>
    /\ parsed = NotParsed
    /\ env \in [logger : {StrRsyslogUrl, StrRsyslogPortUrl}, chsize : ChSizeSettings]
    /\ strict \in BOOLEAN
    /\ flagSet = {}
    /\ pubs = <<>>
    /\ rets = <<>>
    /\ prod = [p \in Producers |-> [pc |-> "idle", n |-> 0, log |-> <<>>]]
    /\ sink = (OsStdout :> <<>>) @@ (OsStderr :> <<>>)
    /\ crashed = ""

NextDial ==
    \/ \E dialOk \in BOOLEAN : CallNew(TRUE, TRUE, dialOk)
    \/ \E r \in 1..MaxCalls : prod[1].n < MaxProbes /\ PushNil(1, r)
    \/ \E r \in 1..MaxCalls : prod[1].n < MaxProbes /\ PushRsyslog(1, r)
    \/ \E i \in 1..MaxCalls : WorkerRecv(i)
    \/ \E i \in 1..MaxCalls : WorkerPark(i)
    \/ \E i \in 1..MaxCalls : WorkerDebug(i)

SpecDial == InitDial /\ [][NextDial]_vars

\* The dials call r of New made.
Dials(r) == {x \in 1..Len(rets[r].ext) : rets[r].ext[x].fn = "syslog.Dial"}

\* C14: the transport New passes to the dial is the one the caller asked
\* for: UDP when UDP was requested, TCP otherwise.
C14_DialUsesRequestedTransport ==
    \A r \in 1..Len(rets) : \A x \in Dials(r) :
        rets[r].ext[x].a1 = IF udpFlag THEN "udp" ELSE "tcp"

\* C18: when the dial fails, NewRsyslog hands back no publisher and starts
\* no worker, and New dials once, installs no Null publisher and returns the
\* dial failure as the status string together with the nil Publisher.
C18_DialFailureLeavesNil ==
    /\ \A r \in 1..Len(rets) :
          (\E x \in Dials(r) : ~rets[r].ext[x].ok) =>
              /\ rets[r].pub = 0
              /\ Len(rets[r].ext) = 1
              /\ rets[r].msg = MsgDialFailed(ParseLoggerUrl(Setting).logger.Host,
                                             ParseLoggerUrl(Setting).logger.Port,
                                             DialErrText)
    /\ Len(pubs) = Cardinality({r \in 1..Len(rets) : rets[r].pub # 0})
    /\ \A i \in 1..Len(pubs) : pubs[i].kind = "rsyslog" /\ pubs[i].wpc # "none"

\* C18's case: a dial has failed and a Push on what New returned for it has
\* ended in a nil dereference.
C18_Witness ==
    /\ \E r \in 1..Len(rets) : \E x \in Dials(r) : ~rets[r].ext[x].ok
    /\ crashed = "nil pointer dereference"


\* ------------------------------------------------------ workers and producers
\* Whether the k-th entry of producer p is in the delivery queue of publisher
\* i or in the hands of its worker.
InQueue(i, p, k) ==
    /\ i \in Queued
    /\ \/ \E x \in 1..Len(pubs[i].ch) : pubs[i].ch[x] = Entry(p, k)
       \/ pubs[i].wpc = "write" /\ pubs[i].cur = Entry(p, k)

\* Whether the k-th entry of producer p has reached the destination of
\* publisher i.
Arrived(i, p, k) == i \in Queued /\ Delivered(i, p, k)

\* C15: the worker of a Stream or Remote-Syslog publisher never leaves its
\* loop, and with the worker scheduled fairly and writes that complete every
\* entry placed in the delivery queue is eventually written.
C15_QueuedEntriesAreWritten ==
    /\ [](\A i \in Queued : pubs[i].wpc \in {"loop", "parked", "write"})
    /\ \A p \in Producers : \A k \in 1..MaxPush :
           InQueue(1, p, k) ~> Arrived(1, p, k)

\* C15's case: the worker has written two entries and is back at the top of
\* its loop with more entries waiting.
C15_Witness ==
    \E i \in Queued :
        /\ Written(i) >= 2
        /\ pubs[i].wpc = "loop"
        /\ pubs[i].ch # <<>>

\* The writes at the destination of publisher i.
WritesOf(i) == SelectSeq(sink[pubs[i].out], LAMBDA w : w.pub = i)

\* C16: every write at the destination of a Stream publisher is one pushed
\* entry followed by one line terminator, and no entry is written twice
\* (every entry is pushed once).
C16_WritesArePushedLines ==
    \A i \in 1..Len(pubs) :
        pubs[i].kind = "stdout" =>
            /\ \A x \in 1..Len(WritesOf(i)) :
                   \E p \in Producers : \E k \in 1..prod[p].n :
                       /\ prod[p].log[k].pub = i
                       /\ WritesOf(i)[x].data = Entry(p, k) \o "\n"
            /\ \A x, y \in 1..Len(WritesOf(i)) :
                   WritesOf(i)[x].data = WritesOf(i)[y].data => x = y

\* C16's case: a Stream publisher has written entries of both producers.
C16_Witness ==
    \E i \in 1..Len(pubs) :
        /\ pubs[i].kind = "stdout"
        /\ Len(WritesOf(i)) >= 3
        /\ \A p \in Producers : \E k \in 1..prod[p].n : Delivered(i, p, k)

\* C17: a step that writes to the destination of a Stream or Remote-Syslog
\* publisher is the completion of the one write its worker was inside: it
\* adds one record, made by the worker, and no Push is part of it.
C17_OnlyTheWorkerWrites ==
    [][\A i \in Queued :
          WritesOf(i)' # WritesOf(i) =>
              /\ pubs[i].wpc = "write"
              /\ pubs'[i].wpc = "loop"
              /\ \A p \in Producers : prod'[p].n = prod[p].n
              /\ WritesOf(i)' = Append(WritesOf(i),
                                       [by |-> "worker", pub |-> i,
                                        sev |-> IF pubs[i].kind = "rsyslog"
                                                THEN "debug" ELSE "",
                                        data |-> pubs[i].cur \o "\n"])
      ]_vars

\* C17's case: both producers are inside a Push on one publisher while its
\* worker is inside a destination write, after an earlier write.
C17_Witness ==
    \E i \in Queued :
        /\ pubs[i].wpc = "write"
        /\ Written(i) >= 1
        /\ \E p, q \in Producers :
               p # q /\ prod[p].log # <<>> /\ prod[q].log # <<>>
                     /\ prod[p].log[prod[p].n].pub = i
                     /\ prod[q].log[prod[q].n].pub = i
                     /\ prod[q].pc = "blocked"

\* Whether the program has a next step other than a new call of Push.
CanStep ==
    \/ ENABLED WorkerRecv(1)
    \/ ENABLED WorkerPark(1)
    \/ ENABLED WorkerWriteString(1)
    \/ ENABLED WorkerDebug(1)

\* C19: with the worker scheduled fairly and writes that complete, a
\* producer waiting in Push eventually returns, and the only state of
\* producers and worker without a next step is the worker waiting on an empty
\* queue with no Push in progress.
C19_BlockedPushReturns ==
    /\ \A p \in Producers : (prod[p].pc = "blocked") ~> (prod[p].pc = "idle")
    /\ [](\A i \in Queued :
             CanStep \/ ( /\ pubs[i].wpc = "parked"
                          /\ pubs[i].ch = <<>>
                          /\ pubs[i].sendq = <<>>
                          /\ \A p \in Producers : prod[p].pc = "idle" ))

\* C19's case: a producer pushed more entries than the queue is deep during
\* one destination write, so its last Push waited, and it has returned.
C19_Witness ==
    \E i \in Queued : \E p \in Producers : \E e \in 1..MaxPush :
        /\ pubs[i].cap >= 1
        /\ Cardinality(Burst(i, p, e)) > pubs[i].cap
        /\ prod[p].pc = "idle"

\* C20: the depth New builds a queue with is positive: New never fails in
\* make(chan) and every queue has room for an entry, and the default depth
\* is in effect when the override is absent, not a number, zero or negative.
C20_DepthAlwaysPositive ==
    /\ crashed # PanicMakeChan
    /\ \A i \in Queued :
          /\ pubs[i].cap >= 1
          /\ ( \/ env.chsize = <<>>
               \/ ~Atoi(env.chsize).ok
               \/ Atoi(env.chsize).val <= 0 ) => pubs[i].cap = DefaultLogChSize

====
